---- MODULE Spec2Model ----
(***************************************************************************)
(* State-machine model of the StoreLocator component (store-locator v2.3). *)
(* One action per event handler or asynchronous callback of the component. *)
(* Store objects are shared by reference between props.stores, the lists   *)
(* built by updateStores and state.stores, so their computed fields live   *)
(* in one table, storeObj, indexed by store id.                            *)
(***************************************************************************)
EXTENDS Integers, Sequences, FiniteSets, TLC

(* ------------------------------ bounds -------------------------------- *)

\* Location-change events (place selections, geocoding requests) per run.
MaxLocationChanges == 2

\* Clicks on the "show your position" button waiting for the device at once.
MaxLocationClicks == 1

\* Clicks on filters per run.
MaxFilterClicks == 1

\* Clicks on store markers, list items and the position marker per run.
MaxSelections == 1

\* Clearings of the search input per run.
MaxResets == 1

\* Distance Matrix requests that fail per run, in the runs that have failures.
MaxFailures == 1

\* The runs of SpecFilters: one location change, a filter switched off and on.
FilterRunLocationChanges == 1
FilterRunFilterClicks == 2

\* The runs of SpecSelections: one location change, two selections in a row.
SelectionRunLocationChanges == 1
SelectionRunSelections == 2

\* The runs of SpecToggles: one location change, a filter click followed by
\* a filter switched off and on.
ToggleRunLocationChanges == 1
ToggleRunFilterClicks == 3

(* ------------------------- program constants -------------------------- *)

\* const KM_TO_MILES = 1.609, in thousandths.
KM_TO_MILES_MILLI == 1609

\* defaultProps.searchRadius
searchRadius == 30

(* ------------------------------ inputs -------------------------------- *)

\* null / undefined is the empty tuple, a present value v is <<v>>.
NULL == <<>>
Some(v) == <<v>>

\* index.js gives every store the id of its position in the input array.
StoreIds == {0, 1}

\* props.stores, in input order.
propsStores == <<0, 1>>

\* index.js giving every store the same id.
storesWithIdsConstant == [i \in StoreIds |-> 0]

\* The id index.js gives the store at each position of the input array:
\* stores.map( ( store, i ) => { store.id = i; return store; } ).
storesWithIds == [i \in StoreIds |-> i]

\* Places the geocoder or the autocomplete can return.
Coords == {"p1", "p2", "p3"}

\* store.location; store 1 stands exactly on the search point p2.
storeLocation == [s \in StoreIds |-> IF s = 1 THEN "p2" ELSE "q0"]

Tags == {"a", "b"}

\* store.tags
storeTags == [s \in StoreIds |-> IF s = 1 THEN {"b"} ELSE {"a"}]

\* Rational numbers <<numerator, denominator>>, denominator > 0.
Rat(n, d) == <<n, d>>
RatLT(a, b) == a[1] * b[2] < b[1] * a[2]
RatEQ(a, b) == a[1] * b[2] = b[1] * a[2]
RECURSIVE GCD(_, _)
GCD(m, n) == IF n = 0 THEN m ELSE GCD(n, m % n)
Norm(a) == IF a[1] = 0 THEN <<0, 1>> ELSE <<a[1] \div GCD(a[1], a[2]), a[2] \div GCD(a[1], a[2])>>
RatTimes(a, b) == Norm(<<Norm(a)[1] * Norm(b)[1], Norm(a)[2] * Norm(b)[2]>>)
RatDiv(a, b) == RatTimes(a, <<b[2], b[1]>>)
\* Number.prototype.toFixed( 2 ), as an integer number of hundredths.
toFixed2(a) == (200 * Norm(a)[1] + Norm(a)[2]) \div (2 * Norm(a)[2])

KM_TO_MILES == Rat(KM_TO_MILES_MILLI, 1000)

\* Value of the spherical law of cosines (in statute miles) between a search
\* point and a store. From p1 store 0 is near and store 1 exactly 30 km away;
\* p2 is the place of store 1, with store 0 near; from p3 store 0 is 20 miles
\* (32.18 km) away and store 1 far; from p4 both stores are 12 miles away.
GreatCircleMiles(c, s) ==
  CASE c = "p1" -> (IF s = 0 THEN Rat(10, 1) ELSE Rat(30000, 1609))
    [] c = "p2" -> (IF s = 0 THEN Rat(5, 1) ELSE Rat(0, 1))
    [] c = "p4" -> Rat(12, 1)
    [] OTHER    -> (IF s = 0 THEN Rat(20, 1) ELSE Rat(100, 1))

\* google.maps.geometry.spherical.computeDistanceBetween, in metres.
computeDistanceBetween(c, s) ==
  CASE c = "p1" -> (IF s = 0 THEN 16093 ELSE 30006)
    [] c = "p2" -> (IF s = 0 THEN 8047 ELSE 0)
    [] c = "p4" -> 19312
    [] OTHER    -> (IF s = 0 THEN 32187 ELSE 160934)

\* route.distance.value of a Distance Matrix answer, in metres: by road
\* store 1 is farther from p2 than store 0.
RouteMeters(c, s) ==
  CASE c = "p1" -> (IF s = 0 THEN 21000 ELSE 38000)
    [] c = "p2" -> (IF s = 0 THEN 12000 ELSE 45000)
    [] c = "p4" -> (IF s = 0 THEN 26000 ELSE 24000)
    [] OTHER    -> (IF s = 0 THEN 40000 ELSE 200000)

(* ------------------------------- state -------------------------------- *)

VARIABLES
  props,                  \* configuration: filters, mapUnitSystem, showStoreDistance, orderByStoreDistance
  state,                  \* this.state: activeStoreId, activeFilters, searchLocation, stores
  storeObj,               \* computed fields of the shared store objects
  markers,                \* this.markers[id]: is the marker on the map
  infoWindow,             \* this.infoWindow
  openWindows,            \* info windows currently open
  currentPositionMarker,  \* this.currentPositionMarker
  input,                  \* value of the search input
  checked,                \* checked state of each filter checkbox
  geolocating,            \* pending navigator.geolocation requests
  geocodes,               \* geocoding requests in flight
  pmaps,                  \* promiseMap runs (precise phases) in flight
  requests,               \* Distance Matrix requests issued so far
  nextId,                 \* number of location changes requested so far
  started,                \* ids of the location changes in the order their search started
  log,                    \* publishes of state.stores by updateStores, in order
  candidate,              \* the place offered for the latest search (the geocoder's first result)
  navigator,              \* window.navigator: has the device a geolocation capability
  rejection,              \* reason of the promise rejection the latest step raised, if any
  markerObjects,          \* the google.maps.Marker objects addStoreMarker has created
  filteredInFlight,       \* ids of the promiseMap runs in flight during which a filter was clicked
  budget                  \* events the run may still take, by kind

vars == <<props, state, storeObj, markers, infoWindow, openWindows,
          currentPositionMarker, input, checked, geolocating, geocodes, pmaps,
          requests, nextId, started, log, candidate, navigator, rejection,
          markerObjects, filteredInFlight, budget>>

(* --------------------------- pure functions --------------------------- *)

Range(seq) == {seq[i] : i \in 1 .. Len(seq)}

\* getUnitSystem()
getUnitSystem == IF props.mapUnitSystem = "IMPERIAL" THEN "IMPERIAL" ELSE "METRIC"

\* getComputedDistance( p1, p2 ) for the store s at p2.
getComputedDistance(p1, s) ==
  IF p1 = storeLocation[s]
    THEN Rat(0, 1)
    ELSE IF getUnitSystem # "IMPERIAL"
           THEN RatTimes(GreatCircleMiles(p1, s), KM_TO_MILES)
           ELSE GreatCircleMiles(p1, s)

\* getSearchRadius()
getSearchRadius ==
  IF getUnitSystem = "IMPERIAL"
    THEN RatDiv(Rat(searchRadius, 1), KM_TO_MILES)
    ELSE Rat(searchRadius, 1)

\* A sort that puts an element before the earlier elements with an equal key.
RECURSIVE InsertBeforeEqual(_, _, _)
InsertBeforeEqual(x, sorted, key) ==
  IF sorted = <<>> THEN <<x>>
  ELSE IF ~RatLT(key[Head(sorted)], key[x])
         THEN <<x>> \o sorted
         ELSE <<Head(sorted)>> \o InsertBeforeEqual(x, Tail(sorted), key)

\* Array.prototype.sort with the comparator ( a, b ) => key[a] - key[b]:
\* ascending, elements with equal keys keep their order.
RECURSIVE InsertByKey(_, _, _)
InsertByKey(x, sorted, key) ==
  IF sorted = <<>> THEN <<x>>
  ELSE IF RatLT(key[x], key[Head(sorted)])
         THEN <<x>> \o sorted
         ELSE <<Head(sorted)>> \o InsertByKey(x, Tail(sorted), key)

RECURSIVE SortByKey(_, _)
SortByKey(seq, key) ==
  IF seq = <<>> THEN <<>>
  ELSE InsertByKey(seq[Len(seq)], SortByKey(SubSeq(seq, 1, Len(seq) - 1), key), key)

\* The radius test with <= in place of <.
withinRadiusInclusive(distance, radius) == ~RatLT(radius, distance)

\* The radius test of updateStores: store.computedDistance < searchRadius.
withinRadius(distance, radius) == RatLT(distance, radius)

\* The approximate phase sorting whatever orderByStoreDistance says.
approximateResultsAlwaysSorted(coords) ==
  LET computed == [s \in StoreIds |-> getComputedDistance(coords, s)]
  IN  SelectSeq(SortByKey(propsStores, computed),
                LAMBDA s : withinRadius(computed[s], getSearchRadius))

\* updateStores, approximate phase: props.stores with computedDistance set,
\* sorted when orderByStoreDistance is on, then filtered by the radius.
approximateResults(coords) ==
  LET computed == [s \in StoreIds |-> getComputedDistance(coords, s)]
      stores == IF props.orderByStoreDistance
                  THEN SortByKey(propsStores, computed)
                  ELSE propsStores
  IN  SelectSeq(stores, LAMBDA s : withinRadius(computed[s], getSearchRadius))

\* getDirectDistance( origin, destination ): { distance, distanceText }.
getDirectDistance(coords, s) ==
  LET km == toFixed2(Rat(computeDistanceBetween(coords, s), 1000))
      mi == toFixed2(RatDiv(Rat(km, 100), KM_TO_MILES))
  IN  IF getUnitSystem = "IMPERIAL"
        THEN [distance |-> Some(mi), distanceText |-> Some(<<mi, "Mi">>)]
        ELSE [distance |-> Some(km), distanceText |-> Some(<<km, "Km">>)]

\* getDistanceValue( distance ), distance in metres.
getDistanceValue(distance) ==
  IF getUnitSystem = "IMPERIAL"
    THEN toFixed2(RatDiv(Rat(distance, 1000), KM_TO_MILES))
    ELSE toFixed2(Rat(distance, 1000))

\* getDistanceText( distance )
getDistanceText(distance) ==
  IF getUnitSystem = "IMPERIAL"
    THEN <<getDistanceValue(distance), "Mi">>
    ELSE <<getDistanceValue(distance), "Km">>

\* getDistanceMatrix( p1, p2 ) resolving with no distance when the request fails.
getDistanceMatrixWithoutFallback(coords, s, ok) ==
  IF ok
    THEN [distance |-> Some(getDistanceValue(RouteMeters(coords, s))),
          distanceText |-> Some(getDistanceText(RouteMeters(coords, s))),
          durationText |-> Some(<<coords, s>>)]
    ELSE [durationText |-> NULL]

\* What getDistanceMatrix( p1, p2 ) resolves with: the route's values when the
\* request and the route are OK, the direct distance otherwise. The duration
\* text of a route is named by its origin and its store.
getDistanceMatrix(coords, s, ok) ==
  IF ok
    THEN [distance |-> Some(getDistanceValue(RouteMeters(coords, s))),
          distanceText |-> Some(getDistanceText(RouteMeters(coords, s))),
          durationText |-> Some(<<coords, s>>)]
    ELSE getDirectDistance(coords, s)

\* Object.assign( store, distance ): the fields of distance overwrite the store's.
ObjectAssign(store, distance) ==
  [f \in DOMAIN store |-> IF f \in DOMAIN distance THEN distance[f] ELSE store[f]]

\* The list of a promiseMap run committed in the order of its approximate list.
refinedResultsUnsorted(results, objs) == results

\* The list committed when a promiseMap run resolves: its results, sorted in
\* place by store.distance when orderByStoreDistance is on.
refinedResults(results, objs) ==
  IF props.orderByStoreDistance
    THEN SortByKey(results, [s \in Range(results) |-> Rat(objs[s].distance[1], 1)])
    ELSE results

\* handleFilterClick: a store is hidden when none of its tags is active.
filterHidden(s, activeFilters) ==
  \A i \in 1 .. Len(activeFilters) : activeFilters[i] \notin storeTags[s]

\* updateStores recomputing hidden from the active filters, as handleFilterClick does.
updateStoresHiddenRecomputed(s) == Some(filterHidden(s, state.activeFilters))

\* The hidden flag a store carries into the list updateStores publishes: the
\* store objects are reused, so the flag is whatever it was.
updateStoresHidden(s) == storeObj[s].hidden

(* ------------------------------- Init --------------------------------- *)

\* A place is a street-level result at any of the points, or the political
\* area (a city) the geocoder files under p2.
Places == [location : Coords, political : {FALSE}] \cup [location : {"p2"}, political : {TRUE}]

\* A street-level place at the point p4, as far from one store as from the
\* other.
EquidistantPlace == [location |-> "p4", political |-> FALSE]

\* What a geocoder answer can hold after its first result: nothing, or a
\* street-level result at p3.
FurtherResults == {<<>>, <<[location |-> "p3", political |-> FALSE]>>}

\* The default options, and the options that differ from them in one point:
\* imperial units, no filters, no store distance, no ordering by distance.
DefaultProps == [filters |-> <<"a", "b">>, mapUnitSystem |-> "METRIC",
                 showStoreDistance |-> TRUE, orderByStoreDistance |-> TRUE]
Configurations ==
  {DefaultProps,
   [DefaultProps EXCEPT !.mapUnitSystem = "IMPERIAL"],
   [DefaultProps EXCEPT !.filters = <<>>],
   [DefaultProps EXCEPT !.showStoreDistance = FALSE],
   [DefaultProps EXCEPT !.orderByStoreDistance = FALSE]}

\* addStoreMarker( store ) storing every marker under the same key.
addStoreMarkerUnkeyed(s) == [store |-> s, storeId |-> NULL]

\* The marker addStoreMarker( store ) creates for store s: it stands at the
\* store's location and carries the store's storeId, the key under which
\* this.markers holds it.
addStoreMarker(s) == [store |-> s, storeId |-> Some(storesWithIds[s])]

\* Devices: with and without navigator.geolocation.
Navigators == [geolocation : BOOLEAN]

\* The constructor leaving no filter active.
constructorActiveFiltersNone == <<>>

\* The active filters the constructor sets: the tag of every configured
\* filter, props.filters.map( ( filter ) => filter.tag ).
constructorActiveFilters == props.filters

\* The state after the constructor and initMap: every store listed with the
\* id index.js gave it copied to storeId, a marker added for every store of
\* props.stores and on the map, every configured filter active and checked.
InitWith(configurations, events) ==
  /\ props \in configurations
  /\ budget = events
  /\ state = [activeStoreId |-> NULL,
              activeFilters |-> constructorActiveFilters,
              searchLocation |-> NULL,
              stores |-> propsStores]
  /\ storeObj = [s \in StoreIds |->
                   [id |-> storesWithIds[s], storeId |-> storesWithIds[s],
                    computedDistance |-> NULL, hidden |-> NULL, distance |-> NULL,
                    distanceText |-> NULL, durationText |-> NULL]]
  /\ markers = [s \in StoreIds |-> TRUE]
  /\ infoWindow = NULL
  /\ openWindows = {}
  /\ currentPositionMarker = [gen |-> 0, position |-> NULL, map |-> FALSE]
  /\ input = ""
  /\ checked = [t \in Range(props.filters) |-> TRUE]
  /\ geolocating = 0
  /\ geocodes = {}
  /\ pmaps = {}
  /\ requests = {}
  /\ nextId = 0
  /\ started = <<>>
  /\ log = <<>>
  /\ candidate = NULL
  /\ rejection = NULL
  /\ filteredInFlight = {}
  /\ markerObjects = [i \in 1 .. Len(propsStores) |-> addStoreMarker(propsStores[i])]

\* The runs of Spec interleave every handler on a device with geolocation;
\* their Distance Matrix requests are all answered with a route.
Init ==
  /\ InitWith(Configurations,
              [changes |-> MaxLocationChanges, filterClicks |-> MaxFilterClicks,
               selections |-> MaxSelections, resets |-> MaxResets, failures |-> 0])
  /\ navigator = [geolocation |-> TRUE]

\* The runs made of searches only can have failed Distance Matrix requests
\* and a device without geolocation.
InitSearch ==
  /\ InitWith(Configurations,
              [changes |-> MaxLocationChanges, filterClicks |-> MaxFilterClicks,
               selections |-> MaxSelections, resets |-> MaxResets, failures |-> MaxFailures])
  /\ navigator \in Navigators

(* ------------------------------ helpers ------------------------------- *)

\* closeInfoWindows() closing nothing.
closeInfoWindowsNone == openWindows

\* closeInfoWindows(): this.infoWindow && this.infoWindow.close()
closeInfoWindows == openWindows \ Range(infoWindow)

\* clearCurrentPositionMarker()
clearCurrentPositionMarker == [currentPositionMarker EXCEPT !.map = FALSE]

\* addCurrentPositionMarker( location ): the old marker leaves the map and a
\* new marker, with a new info window, is put at the location.
addCurrentPositionMarker(location) ==
  [gen |-> currentPositionMarker.gen + 1, position |-> Some(location), map |-> TRUE]

\* updateStores publishing the approximate list only when no precise phase follows.
publishesApproximateOnlyWhenFinal(results) == ~(props.showStoreDistance /\ results # <<>>)

\* updateStores publishing the approximate list only when it has stores.
publishesApproximateUnlessEmpty(results) == results # <<>>

\* updateStores publishes the approximate list at once, whether or not a
\* precise phase follows: this.setState( { stores: results } ).
publishesApproximate(results) == TRUE

\* updateLocation adding the current-position marker for every place.
addsPositionMarkerAlways(place) == TRUE

\* updateLocation adds the current-position marker when the place is not
\* generic: place.types.indexOf( 'political' ) === -1.
addsPositionMarker(place) == ~place.political

\* updateStores asking the Distance Matrix service about every store.
requestedStoresAll(results) == StoreIds

\* The stores updateStores asks the Distance Matrix service about: those of
\* the approximate list, when showStoreDistance is on.
requestedStores(results) ==
  IF props.showStoreDistance /\ results # <<>> THEN Range(results) ELSE {}

\* updateLocation( place ) with updateStores( location ), for the location
\* change numbered id.
updateLocation(id, place) ==
  LET coords == place.location
      results == approximateResults(coords)
      refine == requestedStores(results) # {}
  IN  /\ input' = coords
      /\ state' = [state EXCEPT !.searchLocation = Some(coords),
                                !.stores = IF publishesApproximate(results) THEN results ELSE @]
      /\ storeObj' = [s \in StoreIds |->
                        [storeObj[s] EXCEPT !.computedDistance = Some(getComputedDistance(coords, s)),
                                            !.hidden = updateStoresHidden(s)]]
      /\ log' = IF publishesApproximate(results)
                  THEN Append(log, [id |-> id, phase |-> "approximate"])
                  ELSE log
      /\ pmaps' = IF refine
                    THEN pmaps \cup {[id |-> id, coords |-> coords, results |-> results,
                                      pending |-> requestedStores(results)]}
                    ELSE pmaps
      /\ requests' = requests \cup {<<id, s>> : s \in requestedStores(results)}
      /\ started' = Append(started, id)
      /\ currentPositionMarker' = IF addsPositionMarker(place)
                                    THEN addCurrentPositionMarker(coords)
                                    ELSE currentPositionMarker

(* ------------------------------ actions ------------------------------- *)

\* autocomplete 'place_changed' with a place that has a geometry.
PlaceChanged(place) ==
  /\ budget.changes > geolocating
  /\ budget' = [budget EXCEPT !.changes = @ - 1]
  /\ nextId' = nextId + 1
  /\ openWindows' = closeInfoWindows
  /\ updateLocation(nextId + 1, place)
  /\ candidate' = Some(place)
  /\ rejection' = NULL
  /\ UNCHANGED <<filteredInFlight, navigator, markerObjects, props, markers, infoWindow, checked,
                 geolocating, geocodes>>

\* autocomplete 'place_changed' with a typed name: updateLocationByAddress.
PlaceChangedByName ==
  /\ budget.changes > geolocating
  /\ budget' = [budget EXCEPT !.changes = @ - 1]
  /\ nextId' = nextId + 1
  /\ openWindows' = closeInfoWindows
  /\ geocodes' = geocodes \cup {[id |-> nextId + 1, request |-> "address"]}
  /\ rejection' = NULL
  /\ UNCHANGED <<filteredInFlight, navigator, markerObjects, candidate, props, state, storeObj, markers, infoWindow, currentPositionMarker,
                 input, checked, geolocating, pmaps, requests, started, log>>

\* getUserLocation() rejecting with the same reason in both cases.
rejectionReasonSame(supported) == "user denied request for position"

\* The reason getUserLocation() rejects with: navigator.geolocation is
\* missing, or getCurrentPosition called its error callback.
rejectionReason(supported) ==
  IF ~supported THEN "no geolocation support" ELSE "user denied request for position"

\* Click on the location button: getUserLocation() asks the device, or
\* rejects at once when the device has no geolocation. The rejection has no
\* handler.
LocationButtonClick ==
  /\ geolocating < MaxLocationClicks
  /\ budget.changes > geolocating
  /\ IF navigator.geolocation
       THEN geolocating' = geolocating + 1 /\ rejection' = NULL
       ELSE geolocating' = geolocating /\ rejection' = Some(rejectionReason(FALSE))
  /\ UNCHANGED <<filteredInFlight, navigator, markerObjects, candidate, props, state, storeObj, markers, infoWindow, openWindows,
                 currentPositionMarker, input, checked, geocodes, pmaps, requests,
                 nextId, started, log, budget>>

\* The device returns coordinates: updateLocationByCoordinates( coords ).
GeolocationSuccess ==
  /\ geolocating > 0
  /\ geolocating' = geolocating - 1
  /\ budget' = [budget EXCEPT !.changes = @ - 1]
  /\ nextId' = nextId + 1
  /\ geocodes' = geocodes \cup {[id |-> nextId + 1, request |-> "location"]}
  /\ rejection' = NULL
  /\ UNCHANGED <<filteredInFlight, navigator, markerObjects, candidate, props, state, storeObj, markers, infoWindow, openWindows,
                 currentPositionMarker, input, checked, pmaps, requests, started, log>>

\* The user denies the position: the promise rejects and nothing listens.
GeolocationDenied ==
  /\ geolocating > 0
  /\ geolocating' = geolocating - 1
  /\ rejection' = Some(rejectionReason(TRUE))
  /\ UNCHANGED <<filteredInFlight, navigator, markerObjects, candidate, props, state, storeObj, markers, infoWindow, openWindows,
                 currentPositionMarker, input, checked, geocodes, pmaps, requests,
                 nextId, started, log, budget>>

\* The geocoder callbacks taking the last result.
usedResultLast(results) == results[Len(results)]

\* The result the geocoder callbacks hand to updateLocation: results[0].
usedResult(results) == results[1]

\* The geocoder answers request g: status OK with a first result starts
\* updateLocation with it, anything else does nothing.
GeocodeResponse(g, status, results) ==
  /\ g \in geocodes
  /\ geocodes' = geocodes \ {g}
  /\ IF status = "OK" /\ results # <<>>
       THEN /\ updateLocation(g.id, usedResult(results))
            /\ candidate' = Some(Head(results))
       ELSE UNCHANGED <<state, storeObj, currentPositionMarker, input, pmaps,
                        requests, started, log, candidate>>
  /\ rejection' = NULL
  /\ UNCHANGED <<filteredInFlight, navigator, markerObjects, props, markers, infoWindow, openWindows,
                 checked, geolocating, nextId, budget>>

\* promiseMap asking again about every other store when one is answered.
awaitedAgain(p, s) == StoreIds \ {s}

\* The requests of run p still awaited once the one for store s is answered:
\* getDistanceMatrix resolves its promise on every path, and promiseMap
\* resolves when the promises of all its elements have.
awaited(p, s) == p.pending \ {s}

\* The Distance Matrix service answers the request of run p for store s. The
\* answer is assigned to the store object; the last answer of the run
\* resolves promiseMap, which commits the run's list.
DistanceMatrixResponse(p, s, ok) ==
  /\ p \in pmaps
  /\ s \in p.pending
  /\ ok \/ budget.failures > 0
  /\ budget' = IF ok THEN budget ELSE [budget EXCEPT !.failures = @ - 1]
  /\ storeObj' = [storeObj EXCEPT ![s] = ObjectAssign(@, getDistanceMatrix(p.coords, s, ok))]
  /\ IF awaited(p, s) = {}
       THEN /\ pmaps' = pmaps \ {p}
            /\ state' = [state EXCEPT !.stores = refinedResults(p.results, storeObj')]
            /\ log' = Append(log, [id |-> p.id, phase |-> "refined"])
       ELSE /\ pmaps' = (pmaps \ {p}) \cup {[p EXCEPT !.pending = awaited(p, s)]}
            /\ UNCHANGED <<state, log>>
  /\ filteredInFlight' = IF awaited(p, s) = {} THEN filteredInFlight \ {p.id} ELSE filteredInFlight
  /\ rejection' = NULL
  /\ UNCHANGED <<navigator, markerObjects, candidate, props, markers, infoWindow, openWindows, currentPositionMarker, input,
                 checked, geolocating, geocodes, requests, nextId, started>>

\* handleFilterClick flipping the membership of the tag whatever the checkbox says.
toggledFiltersFlipped(activeFilters, tag, isChecked) ==
  IF tag \notin Range(activeFilters)
    THEN Append(activeFilters, tag)
    ELSE SelectSeq(activeFilters, LAMBDA t : t # tag)

\* The array this.state.activeFilters after handleFilterClick read the
\* checkbox of tag: pushed when checked and absent, spliced out when
\* unchecked and present, left alone otherwise.
toggledFilters(activeFilters, tag, isChecked) ==
  IF isChecked /\ tag \notin Range(activeFilters)
    THEN Append(activeFilters, tag)
  ELSE IF ~isChecked /\ tag \in Range(activeFilters)
    THEN LET i == CHOOSE k \in 1 .. Len(activeFilters) :
                    /\ activeFilters[k] = tag
                    /\ \A j \in 1 .. (k - 1) : activeFilters[j] # tag
         IN  SubSeq(activeFilters, 1, i - 1) \o SubSeq(activeFilters, i + 1, Len(activeFilters))
  ELSE activeFilters

\* handleFilterClick listing only the stores it left visible.
filterClickStoresVisible(activeFilters) ==
  SelectSeq(state.stores, LAMBDA s : ~filterHidden(s, activeFilters))

\* The list handleFilterClick sets: this.state.stores.map( ... ), every store
\* of the list in its place.
filterClickStores(activeFilters) == state.stores

\* Click on the filter of tag: the checkbox flips, then handleFilterClick
\* updates the active filters, recomputes hidden for the stores of
\* state.stores and shows only the markers of the stores it left visible.
FilterClick(tag) ==
  /\ tag \in Range(props.filters)
  /\ budget.filterClicks > 0
  /\ budget' = [budget EXCEPT !.filterClicks = @ - 1]
  /\ LET activeFilters == toggledFilters(state.activeFilters, tag, ~checked[tag])
         listed == Range(state.stores)
     IN  /\ checked' = [checked EXCEPT ![tag] = ~@]
         /\ openWindows' = closeInfoWindows
         /\ state' = [state EXCEPT !.activeFilters = activeFilters,
                                   !.stores = filterClickStores(activeFilters)]
         /\ storeObj' = [s \in StoreIds |->
                           IF s \in listed
                             THEN [storeObj[s] EXCEPT !.hidden = Some(filterHidden(s, activeFilters))]
                             ELSE storeObj[s]]
         /\ markers' = [s \in StoreIds |-> s \in listed /\ ~filterHidden(s, activeFilters)]
  /\ filteredInFlight' = filteredInFlight \cup {p.id : p \in pmaps}
  /\ rejection' = NULL
  /\ UNCHANGED <<navigator, markerObjects, candidate, props, infoWindow, currentPositionMarker, input, geolocating, geocodes,
                 pmaps, requests, nextId, started, log>>

\* handleMarkerClick leaving the list as it is.
markerClickStoresKept(s) == state.stores

\* The stores of the list after handleMarkerClick: when the clicked store has
\* no item in the list, all the stores are listed again.
markerClickStores(s) ==
  IF s \notin Range(state.stores) THEN propsStores ELSE state.stores

\* Click on the marker of store s, which is on the map: handleMarkerClick.
MarkerClick(s) ==
  /\ markers[s]
  /\ budget.selections > 0
  /\ budget' = [budget EXCEPT !.selections = @ - 1]
  /\ state' = [state EXCEPT !.activeStoreId = Some(s), !.stores = markerClickStores(s)]
  /\ input' = IF s \notin Range(state.stores) THEN "" ELSE input
  /\ infoWindow' = Some(<<"store", s>>)
  /\ openWindows' = closeInfoWindows \cup {<<"store", s>>}
  /\ rejection' = NULL
  /\ UNCHANGED <<filteredInFlight, navigator, markerObjects, candidate, props, storeObj, markers, currentPositionMarker, checked, geolocating,
                 geocodes, pmaps, requests, nextId, started, log>>

\* handleStoreClick leaving the selection as it is.
storeClickActiveStoreIdKept(s) == state.activeStoreId

\* The store handleStoreClick selects: the storeId of the marker it opened
\* the info window of, this.markers[ id ].
storeClickActiveStoreId(s) == Some(storeObj[s].storeId)

\* Click on the item of store s in the list (an item with the class
\* is-hidden is not shown): handleStoreClick.
StoreClick(s) ==
  /\ s \in Range(state.stores)
  /\ storeObj[s].hidden # Some(TRUE)
  /\ budget.selections > 0
  /\ budget' = [budget EXCEPT !.selections = @ - 1]
  /\ infoWindow' = Some(<<"store", s>>)
  /\ openWindows' = closeInfoWindows \cup {<<"store", s>>}
  /\ state' = [state EXCEPT !.activeStoreId = storeClickActiveStoreId(s)]
  /\ rejection' = NULL
  /\ UNCHANGED <<filteredInFlight, navigator, markerObjects, candidate, props, storeObj, markers, currentPositionMarker, input, checked,
                 geolocating, geocodes, pmaps, requests, nextId, started, log>>

\* Click on the current-position marker.
CurrentPositionMarkerClick ==
  /\ currentPositionMarker.map
  /\ budget.selections > 0
  /\ budget' = [budget EXCEPT !.selections = @ - 1]
  /\ infoWindow' = Some(<<"position", currentPositionMarker.gen>>)
  /\ openWindows' = closeInfoWindows \cup {<<"position", currentPositionMarker.gen>>}
  /\ rejection' = NULL
  /\ UNCHANGED <<filteredInFlight, navigator, markerObjects, candidate, props, state, storeObj, markers, currentPositionMarker, input, checked,
                 geolocating, geocodes, pmaps, requests, nextId, started, log>>

\* The list the 'search' listener sets when the input was cleared.
resetStores == propsStores

\* The search input is cleared: the 'search' listener finds it empty.
SearchCleared ==
  /\ budget.resets > 0
  /\ budget' = [budget EXCEPT !.resets = @ - 1]
  /\ input' = ""
  /\ state' = [state EXCEPT !.stores = resetStores]
  /\ openWindows' = closeInfoWindows
  /\ currentPositionMarker' = clearCurrentPositionMarker
  /\ rejection' = NULL
  /\ UNCHANGED <<filteredInFlight, navigator, markerObjects, candidate, props, storeObj, markers, infoWindow, checked, geolocating, geocodes,
                 pmaps, requests, nextId, started, log>>

Next ==
  \/ \E place \in Places : PlaceChanged(place)
  \/ PlaceChangedByName
  \/ LocationButtonClick
  \/ GeolocationSuccess
  \/ GeolocationDenied
  \/ \E g \in geocodes : \E place \in Places : \E more \in FurtherResults :
       GeocodeResponse(g, "OK", <<place>> \o more)
  \/ \E g \in geocodes : \E status \in {"OK", "ERROR"} : GeocodeResponse(g, status, <<>>)
  \/ \E p \in pmaps : \E s \in StoreIds : \E ok \in BOOLEAN : DistanceMatrixResponse(p, s, ok)
  \/ \E tag \in Tags : FilterClick(tag)
  \/ \E s \in StoreIds : MarkerClick(s)
  \/ \E s \in StoreIds : StoreClick(s)
  \/ CurrentPositionMarkerClick
  \/ SearchCleared

Spec == Init /\ [][Next]_vars

\* Runs whose location changes all go through the geocoder: typed names and
\* device positions.
NextGeocoding ==
  \/ PlaceChangedByName
  \/ LocationButtonClick
  \/ GeolocationSuccess
  \/ GeolocationDenied
  \/ \E g \in geocodes : \E place \in Places : \E more \in FurtherResults :
       GeocodeResponse(g, "OK", <<place>> \o more)
  \/ \E g \in geocodes : \E status \in {"OK", "ERROR"} : GeocodeResponse(g, status, <<>>)
  \/ \E p \in pmaps : \E s \in StoreIds : \E ok \in BOOLEAN : DistanceMatrixResponse(p, s, ok)

SpecGeocoding == InitSearch /\ [][NextGeocoding]_vars

\* Runs made of location changes and of the answers to their requests only.
NextSearch ==
  \/ \E place \in Places : PlaceChanged(place)
  \/ NextGeocoding

SpecSearch == InitSearch /\ [][NextSearch]_vars

\* Every request gets its answer: the geocoder and the Distance Matrix service
\* call their callbacks for every request in flight. A geocoding request
\* leaves geocodes when GeocodeResponse runs, a Distance Matrix request
\* leaves its run (and the run leaves pmaps with its last one) when
\* DistanceMatrixResponse runs, and no other step takes one away.
AnswersArrive ==
  /\ WF_geocodes(\E g \in geocodes : geocodes' = geocodes \ {g})
  /\ WF_pmaps(\E q \in pmaps : \E s \in q.pending :
                 pmaps' \in {pmaps \ {q},
                            (pmaps \ {q}) \cup {[q EXCEPT !.pending = awaited(q, s)]}})

\* The runs of SpecSearch in which every request is answered.
SpecAnswered == InitSearch /\ [][NextSearch]_vars /\ AnswersArrive

\* Searches from the autocomplete, among them one from a point at the same
\* distance from both stores, with their Distance Matrix answers.
NextOrdering ==
  \/ \E place \in Places \cup {EquidistantPlace} : PlaceChanged(place)
  \/ \E p \in pmaps : \E s \in StoreIds : DistanceMatrixResponse(p, s, TRUE)

SpecOrdering == Init /\ [][NextOrdering]_vars

\* Runs with the default options where a filter can be switched off and on again.
InitFilters ==
  /\ InitWith({DefaultProps},
              [changes |-> FilterRunLocationChanges, filterClicks |-> FilterRunFilterClicks,
               selections |-> MaxSelections, resets |-> MaxResets, failures |-> MaxFailures])
  /\ navigator = [geolocation |-> TRUE]

SpecFilters == InitFilters /\ [][Next]_vars

\* Runs with the default options where two markers or list items are clicked.
InitSelections ==
  /\ InitWith({DefaultProps},
              [changes |-> SelectionRunLocationChanges, filterClicks |-> MaxFilterClicks,
               selections |-> SelectionRunSelections, resets |-> MaxResets,
               failures |-> MaxFailures])
  /\ navigator = [geolocation |-> TRUE]

SpecSelections == InitSelections /\ [][Next]_vars

\* Runs with the default options and three filter clicks.
InitToggles ==
  /\ InitWith({DefaultProps},
              [changes |-> ToggleRunLocationChanges, filterClicks |-> ToggleRunFilterClicks,
               selections |-> MaxSelections, resets |-> MaxResets, failures |-> MaxFailures])
  /\ navigator = [geolocation |-> TRUE]

SpecToggles == InitToggles /\ [][Next]_vars

(* ---------------- initialization with findUserLocation ---------------- *)

\* The component of components/StoreLocator.js takes the options address and
\* findUserLocation; its setupMap chooses the initial location. It has no
\* filters and no location button, and its searches ask the Distance Matrix
\* service about every store.

\* The address option: none (the default), or an address.
Addresses == {"", "Piazza del Colosseo"}

\* The options of that component that its searches read.
SetupConfigurations ==
  [address : Addresses, findUserLocation : BOOLEAN, unitSystem : {"METRIC", "IMPERIAL"},
   nearestStores : {1}]

\* The state after the constructor, before setupMap has run: the stores
\* listed as given, no marker yet.
InitSetup ==
  /\ props \in SetupConfigurations
  /\ navigator \in Navigators
  /\ budget = [setups |-> 1, failures |-> MaxFailures]
  /\ state = [activeStoreId |-> NULL, searchLocation |-> NULL, stores |-> propsStores]
  /\ storeObj = [s \in StoreIds |->
                   [id |-> storesWithIds[s], hidden |-> NULL, distance |-> NULL,
                    distanceText |-> NULL, durationText |-> NULL]]
  /\ markers = [s \in StoreIds |-> FALSE]
  /\ markerObjects = <<>>
  /\ infoWindow = NULL
  /\ openWindows = {}
  /\ currentPositionMarker = [gen |-> 0, position |-> NULL, map |-> FALSE]
  /\ input = ""
  /\ checked = <<>>
  /\ geolocating = 0
  /\ geocodes = {}
  /\ pmaps = {}
  /\ requests = {}
  /\ nextId = 0
  /\ started = <<>>
  /\ log = <<>>
  /\ candidate = NULL
  /\ rejection = NULL
  /\ filteredInFlight = {}

\* setLocation( location ) up to its request: the geocoder is asked about an
\* address (a string) or about coordinates (an object).
setLocation(request) ==
  /\ nextId' = nextId + 1
  /\ geocodes' = geocodes \cup {[id |-> nextId + 1, request |-> request]}

\* setInitialAddress(): if ( this.props.address ) this.setLocation( this.props.address )
setInitialAddress ==
  IF props.address # "" THEN setLocation("address") ELSE UNCHANGED <<nextId, geocodes>>

\* setupMap setting the initial address also when it asks the device.
setupMapLocationAddressToo ==
  /\ setInitialAddress
  /\ rejection' = NULL
  /\ geolocating' = IF props.findUserLocation /\ navigator.geolocation THEN 1 ELSE 0

\* What setupMap does about the initial location: with findUserLocation it
\* calls getUserLocation(), which asks the device or, on a device without
\* geolocation, rejects, and the rejection is caught by setInitialAddress;
\* without findUserLocation it calls setInitialAddress.
setupMapLocation ==
  IF props.findUserLocation
    THEN IF navigator.geolocation
           THEN geolocating' = 1 /\ rejection' = NULL /\ UNCHANGED <<nextId, geocodes>>
           ELSE /\ rejection' = Some(rejectionReason(FALSE))
                /\ setInitialAddress
                /\ UNCHANGED geolocating
    ELSE setInitialAddress /\ rejection' = NULL /\ UNCHANGED geolocating

\* setupMap: a marker is added for every store of the list, then the initial
\* location is chosen.
setupMap ==
  /\ budget.setups > 0
  /\ budget' = [budget EXCEPT !.setups = @ - 1]
  /\ markerObjects' = [i \in 1 .. Len(state.stores) |-> addStoreMarker(state.stores[i])]
  /\ markers' = [s \in StoreIds |-> s \in Range(state.stores)]
  /\ setupMapLocation
  /\ UNCHANGED <<filteredInFlight, navigator, candidate, props, state, storeObj, infoWindow, openWindows,
                 currentPositionMarker, input, checked, pmaps, requests, started, log>>

\* The device returns coordinates to the getUserLocation() of setupMap:
\* setLocation( location ).
UserLocationResolved ==
  /\ geolocating > 0
  /\ geolocating' = geolocating - 1
  /\ setLocation("location")
  /\ rejection' = NULL
  /\ UNCHANGED <<filteredInFlight, navigator, markerObjects, candidate, props, state, storeObj, markers,
                 infoWindow, openWindows, currentPositionMarker, input, checked, pmaps,
                 requests, started, log, budget>>

\* The user denies the position to the getUserLocation() of setupMap: the
\* rejection is caught by setInitialAddress.
UserLocationRejected ==
  /\ geolocating > 0
  /\ geolocating' = geolocating - 1
  /\ rejection' = Some(rejectionReason(TRUE))
  /\ setInitialAddress
  /\ UNCHANGED <<filteredInFlight, navigator, markerObjects, candidate, props, state, storeObj, markers,
                 infoWindow, openWindows, currentPositionMarker, input, checked, pmaps,
                 requests, started, log, budget>>

\* The callback of setLocation: status OK with a first result sets the search
\* location and the home marker there, and calculateDistanceFrom starts a
\* promiseMap run over all the stores; anything else does nothing.
SetLocationResponse(g, status, results) ==
  /\ g \in geocodes
  /\ geocodes' = geocodes \ {g}
  /\ rejection' = NULL
  /\ IF status = "OK" /\ results # <<>>
       THEN LET loc == usedResult(results).location
            IN  /\ input' = loc
                /\ state' = [state EXCEPT !.searchLocation = Some(loc)]
                /\ pmaps' = pmaps \cup {[id |-> g.id, coords |-> loc, results |-> propsStores,
                                         pending |-> Range(propsStores)]}
                /\ requests' = requests \cup {<<g.id, s>> : s \in Range(propsStores)}
                /\ started' = Append(started, g.id)
                /\ currentPositionMarker' = addCurrentPositionMarker(loc)
                /\ candidate' = Some(Head(results))
       ELSE UNCHANGED <<state, currentPositionMarker, input, pmaps, requests, started,
                        candidate>>
  /\ UNCHANGED <<filteredInFlight, navigator, markerObjects, props, storeObj, markers, infoWindow, openWindows,
                 checked, geolocating, nextId, log, budget>>

\* getDirectDistance of that component: the distance is the number of
\* kilometres or miles, with two decimals.
directDistance(coords, s) ==
  LET km == toFixed2(Rat(computeDistanceBetween(coords, s), 1000))
      mi == toFixed2(RatDiv(Rat(km, 100), KM_TO_MILES))
  IN  IF props.unitSystem = "IMPERIAL"
        THEN [distance |-> Some(Rat(mi, 100)), distanceText |-> Some(<<mi, "Mi">>)]
        ELSE [distance |-> Some(Rat(km, 100)), distanceText |-> Some(<<km, "Km">>)]

\* What getDistance( p1, p2 ) resolves with: the route's distance in metres,
\* its text and its duration, or the direct distance when the request or the
\* route is not OK.
getDistance(coords, s, ok) ==
  IF ok
    THEN [distance |-> Some(Rat(RouteMeters(coords, s), 1)),
          distanceText |-> Some(<<RouteMeters(coords, s), "text">>),
          durationText |-> Some(<<coords, s>>)]
    ELSE directDistance(coords, s)

\* The Distance Matrix service answers the request of run p for store s. The
\* last answer resolves promiseMap: the stores are sorted by distance, the
\* markers cleared and added again, all but the nearest stores marked hidden
\* (their markers get the opacity fartherStoresOpacity), the list published.
GetDistanceResponse(p, s, ok) ==
  /\ p \in pmaps
  /\ s \in p.pending
  /\ ok \/ budget.failures > 0
  /\ budget' = IF ok THEN budget ELSE [budget EXCEPT !.failures = @ - 1]
  /\ rejection' = NULL
  /\ LET assigned == [storeObj EXCEPT ![s] = ObjectAssign(@, getDistance(p.coords, s, ok))]
         result == SortByKey(p.results, [t \in StoreIds |-> assigned[t].distance[1]])
     IN  IF p.pending = {s}
           THEN /\ pmaps' = pmaps \ {p}
                /\ storeObj' = [t \in StoreIds |->
                                  [assigned[t] EXCEPT !.hidden =
                                     Some(\E i \in 1 .. Len(result) :
                                            result[i] = t /\ i > props.nearestStores)]]
                /\ markerObjects' = [i \in 1 .. Len(result) |-> addStoreMarker(result[i])]
                /\ markers' = [t \in StoreIds |-> t \in Range(result)]
                /\ state' = [state EXCEPT !.stores = result]
                /\ log' = Append(log, [id |-> p.id, phase |-> "refined"])
           ELSE /\ pmaps' = (pmaps \ {p}) \cup {[p EXCEPT !.pending = @ \ {s}]}
                /\ storeObj' = assigned
                /\ UNCHANGED <<state, log, markers, markerObjects>>
  /\ UNCHANGED <<filteredInFlight, navigator, candidate, props, infoWindow, openWindows, currentPositionMarker,
                 input, checked, geolocating, geocodes, requests, nextId, started>>

NextSetup ==
  \/ setupMap
  \/ UserLocationResolved
  \/ UserLocationRejected
  \/ \E g \in geocodes : \E place \in Places : \E more \in FurtherResults :
       SetLocationResponse(g, "OK", <<place>> \o more)
  \/ \E g \in geocodes : \E status \in {"OK", "ERROR"} : SetLocationResponse(g, status, <<>>)
  \/ \E p \in pmaps : \E s \in StoreIds : \E ok \in BOOLEAN : GetDistanceResponse(p, s, ok)

SpecSetup == InitSetup /\ [][NextSetup]_vars

(* ------------------------------- claims ------------------------------- *)

\* The step starts the search of a location change (updateStores runs).
SearchStarts == Len(started') > Len(started)

\* The step is the clearing of the search input.
ResetStep == budget'.resets < budget.resets

\* The promiseMap run p resolves in the step.
Completes(p) == p \in pmaps /\ \A q \in pmaps' : q.id # p.id

\* C1: when a later location change has started its search while the precise
\* phase of an earlier search was in flight, the completion of the earlier
\* precise phase leaves the published list as it is.
C1_StalePreciseCompletionIsNoOp ==
  [][\A p \in pmaps :
       (Completes(p) /\ p.id # started[Len(started)]) => state'.stores = state.stores]_vars

\* C2: the answer to a geocoding request that arrives after the answer to a
\* newer geocoding request has started its search publishes nothing: the
\* published list and the search location stay as they are.
C2_StaleGeocodingResponseIsNoOp ==
  [][\A g \in geocodes :
       (g \notin geocodes' /\ \E i \in 1 .. Len(started) : started[i] > g.id)
         => /\ state'.stores = state.stores
            /\ state'.searchLocation = state.searchLocation]_vars

\* C3: a search whose precise phase is in flight has already published its
\* approximate list, and every refined publish comes after the approximate
\* publish of the same search.
C3_ApproximateBeforeRefined ==
  /\ \A p \in pmaps :
       \E j \in 1 .. Len(log) : log[j] = [id |-> p.id, phase |-> "approximate"]
  /\ \A i \in 1 .. Len(log) :
       log[i].phase = "refined"
         => \E j \in 1 .. (i - 1) : log[j] = [id |-> log[i].id, phase |-> "approximate"]

\* A search has published its approximate list and then its refined list.
C3_Witness ==
  /\ props.showStoreDistance
  /\ \E i, j \in 1 .. Len(log) :
       /\ i < j
       /\ log[i] = [id |-> log[j].id, phase |-> "approximate"]
       /\ log[j].phase = "refined"

\* C4: the list published by the approximate phase holds each store once, and
\* holds exactly the stores whose approximate distance is strictly less than
\* the radius of the search (getSearchRadius).
C4_ApproximateListIsExactlyWithinRadius ==
  [][SearchStarts
       => /\ \A s \in StoreIds :
               s \in Range(state'.stores)
                 <=> RatLT(storeObj'[s].computedDistance[1], getSearchRadius)
          /\ Cardinality(Range(state'.stores)) = Len(state'.stores)]_vars

\* A search from p1 has left out store 1, which is exactly at the radius, and
\* kept store 0.
C4_Witness ==
  /\ state.searchLocation = Some("p1")
  /\ state.stores = <<0>>
  /\ storeObj[1].computedDistance # NULL
  /\ RatEQ(storeObj[1].computedDistance[1], getSearchRadius)

\* C5: the approximate filter keeps a store if and only if its approximate
\* distance, in the active unit (miles with IMPERIAL, kilometres with METRIC),
\* is strictly less than the configured searchRadius.
C5_RadiusInActiveUnit ==
  [][SearchStarts
       => \A s \in StoreIds :
            s \in Range(state'.stores)
              <=> RatLT(storeObj'[s].computedDistance[1], Rat(searchRadius, 1))]_vars

\* C6: with filters configured, every published store that shares no tag with
\* the active filters is marked hidden.
C6_FilteredOutStoresAreHidden ==
  props.filters # <<>>
    => \A s \in Range(state.stores) :
         storeTags[s] \cap Range(state.activeFilters) = {}
           => storeObj[s].hidden = Some(TRUE)

\* C7: with filters configured, no published store that has a tag among the
\* active filters is marked hidden.
C7_MatchingStoresAreNotHidden ==
  props.filters # <<>>
    => \A s \in Range(state.stores) :
         storeTags[s] \cap Range(state.activeFilters) # {}
           => storeObj[s].hidden # Some(TRUE)

C9_ResetShowsEveryStore ==
  [][ResetStep
       => /\ state'.stores = propsStores
          /\ \A s \in StoreIds : storeObj'[s].hidden # Some(TRUE) /\ markers'[s]]_vars

\* C10: right after the search input is cleared no store is selected and no
\* info window is open.
C10_ResetClearsSelection ==
  [][ResetStep => state'.activeStoreId = NULL /\ openWindows' = {}]_vars

\* C11: in every reachable state at most one store is selected and at most
\* one info window is open, counting the windows of the store markers and of
\* the current-position marker; the open window is the one this.infoWindow
\* refers to.
C11_AtMostOneSelectionAndInfoWindow ==
  /\ Cardinality({s \in StoreIds : state.activeStoreId = Some(s)}) <= 1
  /\ Cardinality(openWindows) <= 1
  /\ openWindows \subseteq Range(infoWindow)

\* Two selections were made one after the other and the window of the second
\* is the one open.
C11_Witness ==
  /\ budget.selections + 2 <= SelectionRunSelections
  /\ infoWindow # NULL
  /\ openWindows = {infoWindow[1]}

\* The step is a failed answer of the Distance Matrix service.
FailureStep == budget'.failures < budget.failures

\* The step is the answer to the request of run p for store s.
Answers(p, s) ==
  /\ p \in pmaps
  /\ s \in p.pending
  /\ \A q \in pmaps' : q.id = p.id => s \notin q.pending

\* The list committed when run p resolves has the members of the run's
\* approximate list, each once.
SameMembers(p) ==
  /\ Range(state'.stores) = Range(p.results)
  /\ Len(state'.stores) = Len(p.results)

\* C12: when the precise phase of a search resolves after a failed request,
\* the refined list has the length and the members of the approximate list,
\* and a failed answer leaves the distance values of its store (distance,
\* distanceText, computedDistance) as the approximate phase left them.
C12_FailedStoreKeepsApproximateValues ==
  [][/\ \A p \in pmaps : Completes(p) => SameMembers(p)
     /\ FailureStep
          => \A s \in StoreIds :
               /\ storeObj'[s].computedDistance = storeObj[s].computedDistance
               /\ storeObj'[s].distance = storeObj[s].distance
               /\ storeObj'[s].distanceText = storeObj[s].distanceText]_vars

\* C12, amended: the refined list has the length and the members of the
\* approximate list, and a failed answer gives its store the distance and the
\* distanceText of getDirectDistance (the straight-line distance, rounded to
\* two decimals, in the active unit), leaving its computedDistance and the
\* distance values of every other store as they were.
C12_FailedStoreGetsDirectDistance ==
  [][/\ \A p \in pmaps : Completes(p) => SameMembers(p)
     /\ FailureStep
          => \E p \in pmaps : \E s \in p.pending :
               /\ Answers(p, s)
               /\ storeObj'[s].distance = getDirectDistance(p.coords, s).distance
               /\ storeObj'[s].distanceText = getDirectDistance(p.coords, s).distanceText
               /\ storeObj'[s].computedDistance = storeObj[s].computedDistance
               /\ \A t \in StoreIds \ {s} :
                    /\ storeObj'[t].distance = storeObj[t].distance
                    /\ storeObj'[t].distanceText = storeObj[t].distanceText
                    /\ storeObj'[t].computedDistance = storeObj[t].computedDistance]_vars

\* A search with two stores in its list has resolved with one request
\* answered by a route and the other failed.
C12_Witness ==
  /\ budget.failures < MaxFailures
  /\ log # <<>>
  /\ log[Len(log)].phase = "refined"
  /\ \E s, t \in Range(state.stores) :
       /\ s # t
       /\ storeObj[s].durationText # NULL
       /\ storeObj[t].durationText = NULL
       /\ storeObj[t].distance # NULL

\* C13: a Distance Matrix request for store s is issued only by the start of
\* a search, only with showStoreDistance on, and only when s is in the
\* approximate list of that search, strictly within the radius.
C13_RequestsOnlyForStoresWithinRadius ==
  [][\A r \in requests' \ requests :
       /\ SearchStarts
       /\ props.showStoreDistance
       /\ r[1] = started'[Len(started')]
       /\ r[2] \in Range(state'.stores)
       /\ RatLT(storeObj'[r[2]].computedDistance[1], getSearchRadius)]_vars

\* A search has issued a request for one store and none for the other, which
\* is outside the radius.
C13_Witness ==
  /\ props.showStoreDistance
  /\ \E r \in requests : \E t \in StoreIds :
       /\ <<r[1], t>> \notin requests
       /\ ~RatLT(storeObj[t].computedDistance[1], getSearchRadius)

\* The published list, the search location, the selected store and the
\* current-position marker are after the step what they were before it.
CommittedStateUntouched ==
  /\ state'.stores = state.stores
  /\ state'.searchLocation = state.searchLocation
  /\ state'.activeStoreId = state.activeStoreId
  /\ currentPositionMarker' = currentPositionMarker

\* C14: a geocoding request, and an answer to it with a non-OK status or with
\* no result, leave the published list, the search location, the selected
\* store and the current-position marker as they were; an answer with
\* results starts the search at the first of them.
C14_GeocodingFailureLeavesStateUntouched ==
  [][/\ geocodes' # geocodes /\ ~SearchStarts => CommittedStateUntouched
     /\ geocodes' # geocodes /\ SearchStarts
          => /\ candidate' # NULL
             /\ state'.searchLocation = Some(candidate'[1].location)]_vars

\* After a first search was committed, the geocoding request of the second
\* location change was answered without a search.
C14_Witness ==
  /\ started = <<1>>
  /\ nextId = 2
  /\ geocodes = {}
  /\ geolocating = 0

\* The place the search started by the step is about.
SearchedPlace == candidate'[1]

\* The Distance Matrix requests the step issues.
IssuedRequests == requests' \ requests

AscendingByDistance(stores, objs) ==
  \A i, j \in 1 .. Len(stores) :
    i < j => objs[stores[i]].distance[1] <= objs[stores[j]].distance[1]

\* C16: with orderByStoreDistance on, the list committed when a precise phase
\* resolves has the members of the approximate list in ascending order of
\* store.distance, the distance of the route or, for a failed request, the
\* fallback distance.
C16_RefinedListSortedByPreciseDistance ==
  [][\A p \in pmaps :
       Completes(p) /\ props.orderByStoreDistance
         => /\ SameMembers(p)
            /\ AscendingByDistance(state'.stores, storeObj')]_vars

\* The search at p2 published [1, 0] by approximate distance and committed
\* [0, 1]: by road store 1 is 45 km away and store 0 12 km.
C16_Witness ==
  /\ props.orderByStoreDistance
  /\ props.mapUnitSystem = "METRIC"
  /\ log = <<[id |-> 1, phase |-> "approximate"], [id |-> 1, phase |-> "refined"]>>
  /\ state.searchLocation = Some("p2")
  /\ state.stores = <<0, 1>>
  /\ storeObj[0].distance = Some(1200)
  /\ storeObj[1].distance = Some(4500)

\* The active filters after the filter of tag was switched off and on again
\* by two clicks in a row.
SwitchedOffAndOn(tag) ==
  toggledFilters(toggledFilters(state.activeFilters, tag, FALSE), tag, TRUE)

\* C17: wherever an active filter can be switched off and on again by two
\* clicks in a row, the two clicks (which leave the members and the order of
\* the published list alone, and recompute hidden for each of its stores)
\* give every store of the list the hidden flag it has now.
C17_OffAndOnRestoresHiddenFlags ==
  \A tag \in Range(state.activeFilters) :
    budget.filterClicks >= 2
      => \A s \in Range(state.stores) :
           filterHidden(s, SwitchedOffAndOn(tag)) = (storeObj[s].hidden = Some(TRUE))

\* The stores of the list are in the order props.stores has them in.
InInputOrder(stores) ==
  \A i, j \in 1 .. Len(stores) :
    i < j => \E k, l \in 1 .. Len(propsStores) :
               k < l /\ propsStores[k] = stores[i] /\ propsStores[l] = stores[j]

\* C18: with orderByStoreDistance off, the list a search publishes, in its
\* approximate phase and when its precise phase resolves, has the stores in
\* the order of the input, and the approximate list leaves out exactly the
\* stores that are not strictly within the radius.
C18_InputOrderKeptWithoutOrdering ==
  [][~props.orderByStoreDistance
       => /\ SearchStarts
               => /\ InInputOrder(state'.stores)
                  /\ \A s \in StoreIds :
                       s \in Range(state'.stores)
                         <=> RatLT(storeObj'[s].computedDistance[1], getSearchRadius)
          /\ \A p \in pmaps :
               Completes(p) => InInputOrder(state'.stores) /\ SameMembers(p)]_vars

\* Without ordering, the search at p2 has committed [0, 1] although store 1
\* is the nearer one.
C18_Witness ==
  /\ ~props.orderByStoreDistance
  /\ state.searchLocation = Some("p2")
  /\ log = <<[id |-> 1, phase |-> "approximate"], [id |-> 1, phase |-> "refined"]>>
  /\ state.stores = <<0, 1>>
  /\ RatLT(storeObj[1].computedDistance[1], storeObj[0].computedDistance[1])

\* C19: every store has an id, the ids of distinct stores are distinct, and
\* the id and the storeId of a store are in every reachable state the ones
\* it was given at ingestion.
C19_StoreIdsDistinctAndStable ==
  /\ \A s \in StoreIds :
       /\ storeObj[s].id = storesWithIds[s]
       /\ storeObj[s].storeId = storeObj[s].id
  /\ \A s, t \in StoreIds : s # t => storeObj[s].id # storeObj[t].id

\* A search was refined, a filter clicked, a store selected and the search
\* input cleared.
C19_Witness ==
  /\ \E i \in 1 .. Len(log) : log[i].phase = "refined"
  /\ budget.filterClicks < MaxFilterClicks
  /\ state.activeStoreId # NULL
  /\ budget.resets < MaxResets
  /\ \E s \in StoreIds : storeObj[s].hidden = Some(TRUE)

\* No store is strictly within the radius of the search the step starts.
NoStoreWithinRadius ==
  \A s \in StoreIds : ~RatLT(storeObj'[s].computedDistance[1], getSearchRadius)

\* C20: a search with no store within the radius publishes the empty list
\* and starts no precise phase and no Distance Matrix request; a search that
\* starts while the empty list is published publishes the stores within its
\* radius like any other.
C20_EmptyResultIsPublished ==
  [][/\ SearchStarts /\ NoStoreWithinRadius
          => /\ state'.stores = <<>>
             /\ log' = Append(log, [id |-> started'[Len(started')], phase |-> "approximate"])
             /\ IssuedRequests = {}
             /\ pmaps' = pmaps
     /\ SearchStarts /\ state.stores = <<>>
          => \A s \in StoreIds :
               s \in Range(state'.stores)
                 <=> RatLT(storeObj'[s].computedDistance[1], getSearchRadius)]_vars

\* The first search found no store and issued no request; the second has
\* published stores and issued requests for them.
C20_Witness ==
  /\ props.showStoreDistance
  /\ started = <<1, 2>>
  /\ requests # {}
  /\ \A r \in requests : r[1] = 2
  /\ state.stores # <<>>

\* The step is the run of setupMap.
SetupStep == budget'.setups < budget.setups

\* The step asks the geocoder about the configured address, or about the
\* coordinates of the device.
Geocoded(request) == \E g \in geocodes' \ geocodes : g.request = request

\* C21: at initialization with findUserLocation on, the configured address
\* (when there is one) is geocoded exactly by the steps in which the device
\* location fails, for lack of support or by denial, and a device location
\* that arrives is geocoded instead; with findUserLocation off the
\* configured address, when not empty, is geocoded by setupMap itself.
C21_DeviceLocationOverridesAddress ==
  [][/\ props.findUserLocation
          => /\ Geocoded("address") <=> (rejection' # NULL /\ props.address # "")
             /\ Geocoded("location") <=> (geolocating' < geolocating /\ rejection' = NULL)
     /\ ~props.findUserLocation
          => /\ Geocoded("address") <=> (SetupStep /\ props.address # "")
             /\ ~Geocoded("location")]_vars

\* With findUserLocation on and an address configured, the user has denied
\* the position and the address is being geocoded.
C21_Witness ==
  /\ props.findUserLocation
  /\ props.address # ""
  /\ navigator.geolocation
  /\ rejection = Some(rejectionReason(TRUE))
  /\ geocodes = {[id |-> 1, request |-> "address"]}

\* The distance fields the listing shows for store s are after the step
\* what they were before it.
ShownDistanceUnchanged(s) ==
  /\ storeObj'[s].distance = storeObj[s].distance
  /\ storeObj'[s].distanceText = storeObj[s].distanceText
  /\ storeObj'[s].durationText = storeObj[s].durationText

\* C22: an answer of the Distance Matrix service that does not resolve its
\* run (other answers of the run are still awaited) changes no distance, distance
\* text or duration text of a store in the published list: the precise
\* values show only when the refined list is published.
C22_NoPreciseValueBeforeRefinedPublish ==
  [][\A p \in pmaps : \A s \in p.pending :
       Answers(p, s) /\ ~Completes(p)
         => \A t \in Range(state'.stores) : ShownDistanceUnchanged(t)]_vars

\* The store objects as index.js hands them to the component: each with its
\* id and none of the fields the component computes.
SuppliedStore(s) ==
  [id |-> storesWithIds[s], storeId |-> NULL, computedDistance |-> NULL, hidden |-> NULL,
   distance |-> NULL, distanceText |-> NULL, durationText |-> NULL]

\* C23: the store objects the caller supplied keep the values they were
\* supplied with: no search and no filter click writes an approximate
\* distance, a precise distance, a distance text, a duration text or a hidden
\* flag to them.
C23_SuppliedStoresNeverModified ==
  \A s \in StoreIds :
    /\ storeObj[s].computedDistance = SuppliedStore(s).computedDistance
    /\ storeObj[s].distance = SuppliedStore(s).distance
    /\ storeObj[s].distanceText = SuppliedStore(s).distanceText
    /\ storeObj[s].durationText = SuppliedStore(s).durationText
    /\ storeObj[s].hidden = SuppliedStore(s).hidden

\* The distance text and the duration text of store s are what the search of
\* run p gives it: those of the route from the run's location, or the direct
\* distance and no duration.
TextsFromRun(p, s) ==
  \/ /\ storeObj'[s].distanceText = Some(getDistanceText(RouteMeters(p.coords, s)))
     /\ storeObj'[s].durationText = Some(<<p.coords, s>>)
  \/ /\ storeObj'[s].distanceText = getDirectDistance(p.coords, s).distanceText
     /\ storeObj'[s].durationText = NULL

\* C24: a store whose Distance Matrix request has failed shows no duration
\* text (none is left from an earlier search), and when a search completes
\* the distance text and the duration text of every store of the published
\* list are those of that search, so that the same search run again
\* publishes the same values.
C24_PublishedTextsFromLatestSearchOnly ==
  [][\A p \in pmaps :
       /\ \A s \in p.pending :
            Answers(p, s) /\ FailureStep => storeObj'[s].durationText = NULL
       /\ Completes(p) => \A s \in Range(state'.stores) : TextsFromRun(p, s)]_vars

\* The step is a click on a filter.
FilterStep == budget'.filterClicks < budget.filterClicks

\* The step publishes a list: the approximate list of a search, the refined
\* list of a promiseMap run, or the list of a filter click.
PublishStep == SearchStarts \/ FilterStep \/ \E p \in pmaps : Completes(p)

\* C25: after every publish the marker of a store is on the map if and only
\* if the store is in the published list and not hidden.
C25_MarkersFollowPublishedList ==
  [][PublishStep
       => \A s \in StoreIds :
            markers'[s] <=> (s \in Range(state'.stores) /\ storeObj'[s].hidden # Some(TRUE))]_vars

\* The markers this.markers holds under the key id.
MarkersUnder(id) == {i \in DOMAIN markerObjects : markerObjects[i].storeId = Some(id)}

\* C26: in every reachable state this.markers holds under the id of each
\* store exactly one marker, the marker made for that store, and every
\* marker that was made is held under the id of the store it was made for:
\* there are as many markers as stores.
C26_MarkerTableIsBijection ==
  /\ \A s \in StoreIds :
       /\ Cardinality(MarkersUnder(storeObj[s].id)) = 1
       /\ \A i \in MarkersUnder(storeObj[s].id) : markerObjects[i].store = s
  /\ \A i \in DOMAIN markerObjects :
       markerObjects[i].storeId = Some(storeObj[markerObjects[i].store].id)
  /\ Len(markerObjects) = Cardinality(StoreIds)

\* After a search, a filter click, a selection and a reset the marker of a
\* store is off the map and still in the table.
C26_Witness ==
  /\ started # <<>>
  /\ budget.filterClicks < MaxFilterClicks
  /\ budget.selections < MaxSelections
  /\ budget.resets < MaxResets
  /\ \E s \in StoreIds : ~markers[s] /\ MarkersUnder(storeObj[s].id) # {}

\* The Distance Matrix requests of run p that are in flight.
InFlight(p) == {<<p.id, s>> : s \in p.pending}

\* A ceiling that does not grow with the stores is, for a store set large
\* enough, below the number of stores a search can keep: here the largest
\* number below the size of the store set.
ConcurrencyCeiling == Cardinality(StoreIds) - 1

\* C27: the Distance Matrix requests a search has in flight at any moment
\* are at most a ceiling that does not depend on the number of stores the
\* approximate phase kept.
C27_RequestsInFlightBelowCeiling ==
  \A p \in pmaps : Cardinality(InFlight(p)) <= ConcurrencyCeiling

\* The reasons a device-location request fails with.
GeolocationUnavailable == "no geolocation support"
GeolocationDeniedReason == "user denied request for position"

\* C28: the geocoder is asked about the coordinates of the device only in a
\* step in which the device has returned them; a device-location request
\* that fails does so with the reason of its cause (no geolocation on the
\* device, or the position denied), issues no geocoding request and leaves
\* the published list, the search location, the store markers and the
\* current-position marker as they were.
C28_DeviceLocationFailureIsDistinguishedAndInert ==
  [][/\ Geocoded("location") => (geolocating' < geolocating /\ rejection' = NULL)
     /\ rejection' # NULL
          => /\ rejection' = IF navigator.geolocation
                               THEN Some(GeolocationDeniedReason)
                               ELSE Some(GeolocationUnavailable)
             /\ geocodes' = geocodes
             /\ requests' = requests
             /\ state' = state
             /\ markers' = markers
             /\ currentPositionMarker' = currentPositionMarker]_vars

\* On a device without geolocation, after a search was published, a click on
\* the location button has failed for lack of support.
C28_Witness ==
  /\ ~navigator.geolocation
  /\ rejection = Some(GeolocationUnavailable)
  /\ started # <<>>
  /\ state.searchLocation # NULL
  /\ geocodes = {}

\* The location change id has a request in flight: its geocoding request or
\* a Distance Matrix request of its search.
InProgress(id) == (\E g \in geocodes : g.id = id) \/ (\E p \in pmaps : p.id = id)

\* The log has the publish of the location change id in the phase.
Published(id, phase) == \E i \in 1 .. Len(log) : log[i] = [id |-> id, phase |-> phase]

\* The location change id has reached its end: nothing of it is in flight,
\* and it was discarded without a search (its geocoding failed), or its
\* refined list is published, or its approximate list is published and
\* final (no precise phase followed it).
Terminal(id) ==
  /\ ~InProgress(id)
  /\ \/ id \notin Range(started)
     \/ Published(id, "refined")
     \/ Published(id, "approximate") /\ requests \cap ({id} \X StoreIds) = {}

\* C29: when every geocoding request and every Distance Matrix request is
\* answered, by a success or by a failure, every location change that has a
\* request in flight reaches its end: discarded, or its final list
\* published.
C29_EveryLocationChangeTerminates ==
  \A id \in 1 .. MaxLocationChanges : InProgress(id) ~> Terminal(id)

\* A search has published its refined list although one of its Distance
\* Matrix requests failed.
C29_Witness ==
  /\ budget.failures < MaxFailures
  /\ pmaps = {}
  /\ geocodes = {}
  /\ \E id \in 1 .. MaxLocationChanges : Published(id, "refined") /\ Terminal(id)

\* The position of store s in props.stores.
InputPosition(s) == CHOOSE i \in 1 .. Len(propsStores) : propsStores[i] = s

\* This step publishes an approximate list.
ApproximatePublish ==
  /\ Len(log') = Len(log) + 1
  /\ log'[Len(log')].phase = "approximate"

\* Store a stands rightly before store b in a list ordered by the
\* approximate distance the store objects hold.
InOrder(a, b, objs) ==
  \/ RatLT(objs[a].computedDistance[1], objs[b].computedDistance[1])
  \/ /\ RatEQ(objs[a].computedDistance[1], objs[b].computedDistance[1])
     /\ InputPosition(a) < InputPosition(b)

\* C30: with orderByStoreDistance on, the approximate list a search
\* publishes is in ascending order of the approximate distance just computed,
\* and stores at the same approximate distance are in their order in
\* props.stores.
C30_ApproximateListSortedTiesInInputOrder ==
  [][ApproximatePublish /\ props.orderByStoreDistance =>
       \A i, j \in 1 .. Len(state'.stores) :
         i < j => InOrder(state'.stores[i], state'.stores[j], storeObj')]_vars

\* The latest publish is the approximate list of a search from the point at
\* equal distance from both stores, ordering by distance being on: both are
\* listed, in input order.
C30_Witness ==
  /\ props.orderByStoreDistance
  /\ log # <<>>
  /\ log[Len(log)].phase = "approximate"
  /\ state.searchLocation = Some("p4")
  /\ state.stores = propsStores
  /\ RatEQ(storeObj[0].computedDistance[1], storeObj[1].computedDistance[1])

\* C31: the active filters start as the tags of all the configured filters,
\* and only a click on a filter changes them: a location change, the
\* completion of a promiseMap run, a selection and a reset leave them alone.
C31_ActiveFiltersChangedOnlyByToggles ==
  /\ Range(state.activeFilters) = Range(props.filters)
  /\ [][state'.activeFilters # state.activeFilters => FilterStep]_vars

\* A search has published its refined list, a store was selected and the
\* input was cleared, with no click on a filter: every configured filter is
\* still active.
C31_Witness ==
  /\ props.filters # <<>>
  /\ \E i \in 1 .. Len(log) : log[i].phase = "refined"
  /\ state.activeStoreId # NULL
  /\ budget.resets < MaxResets
  /\ budget.filterClicks = MaxFilterClicks
  /\ state.activeFilters = props.filters

\* How many times the tag is in the array of active filters.
Occurrences(activeFilters, tag) ==
  Cardinality({i \in 1 .. Len(activeFilters) : activeFilters[i] = tag})

\* C32: handleFilterClick sets the membership of the tag from the state of
\* its checkbox: after any clicks a tag is in the active filters once when
\* its checkbox is checked and not at all when it is not, and from there a
\* call that finds the checkbox checked leaves the tag in once, a call that
\* finds it unchecked leaves it out, and the same call again changes nothing.
C32_ToggleSetsMembershipByIntent ==
  \A tag \in Range(props.filters) :
    /\ Occurrences(state.activeFilters, tag) = (IF checked[tag] THEN 1 ELSE 0)
    /\ \A isChecked \in BOOLEAN :
         LET toggled == toggledFilters(state.activeFilters, tag, isChecked)
         IN  /\ Occurrences(toggled, tag) = (IF isChecked THEN 1 ELSE 0)
             /\ \A other \in Range(props.filters) \ {tag} :
                  Occurrences(toggled, other) = Occurrences(state.activeFilters, other)
             /\ toggledFilters(toggled, tag, isChecked) = toggled

\* A filter was switched off and on again, which took its tag out of the
\* array and put it back once, at the end.
C32_Witness ==
  /\ state.activeFilters = <<"b", "a">>
  /\ \A tag \in Tags : checked[tag]

\* C33: a click on a filter leaves the published list with the same stores
\* in the same order, hidden ones included, and leaves the search location,
\* the selection, the input, the distances of the stores and the
\* current-position marker as they were.
C33_FilterToggleKeepsListAndLocation ==
  [][FilterStep
       => /\ state'.stores = state.stores
          /\ state'.searchLocation = state.searchLocation
          /\ state'.activeStoreId = state.activeStoreId
          /\ input' = input
          /\ currentPositionMarker' = currentPositionMarker
          /\ \A s \in StoreIds : storeObj'[s] = [storeObj[s] EXCEPT !.hidden = storeObj'[s].hidden]]_vars

\* After a search a filter was switched off, and a store it hid is still in
\* the published list.
C33_Witness ==
  /\ state.searchLocation # NULL
  /\ budget.filterClicks < FilterRunFilterClicks
  /\ \E s \in Range(state.stores) : storeObj[s].hidden = Some(TRUE) /\ ~markers[s]

\* The list in force is the one a reset restored: the input was cleared
\* after the latest search started (a search writes the input, and no marker
\* was clicked, the other way the input gets empty).
RestoredByReset ==
  /\ started # <<>>
  /\ input = ""
  /\ budget.resets < MaxResets
  /\ budget.selections = MaxSelections

\* C34: when the input was cleared while the promiseMap run of a search was
\* in flight, the completion of the run leaves the restored list, all the
\* stores, published.
C34_CompletionAfterResetKeepsRestoredList ==
  [][\A p \in pmaps :
       (Completes(p) /\ RestoredByReset) => state'.stores = propsStores]_vars

\* C35: when a filter was clicked while a promiseMap run was in flight, the
\* list published when the run resolves has every store hidden exactly when
\* none of its tags is among the filters active at that time.
C35_RefinedListReflectsTogglesInFlight ==
  [][\A p \in pmaps :
       (Completes(p) /\ p.id \in filteredInFlight)
         => \A s \in Range(state'.stores) :
              (storeObj'[s].hidden = Some(TRUE)) <=> filterHidden(s, state'.activeFilters)]_vars

\* C36: a current-position marker on the map stands at the location of the
\* latest search; after a search at a political place no marker of an
\* earlier search is left on the map.
C36_PositionMarkerAtLatestSearchLocation ==
  currentPositionMarker.map => currentPositionMarker.position = state.searchLocation

\* C37: the selected store, when there is one, is in the published list and
\* is not hidden.
C37_SelectedStoreIsListedAndVisible ==
  \A s \in StoreIds :
    state.activeStoreId = Some(storeObj[s].storeId)
      => s \in Range(state.stores) /\ storeObj[s].hidden # Some(TRUE)

\* C38: whenever the info window of the marker of a store is open, that
\* store is the selected one: the active store id is its id.
C38_OpenStoreWindowIsOfSelectedStore ==
  \A s \in StoreIds :
    <<"store", s>> \in openWindows => state.activeStoreId = Some(storeObj[s].id)

\* After a search two selections were made, one after the other, and the
\* info window of a store is the open one.
C38_Witness ==
  /\ budget.selections <= SelectionRunSelections - 2
  /\ state.searchLocation # NULL
  /\ \E s \in StoreIds : openWindows = {<<"store", s>>}

\* The step is a click on the marker of store s, which has no item in the
\* published list (a list item can be clicked only for a listed store).
UnlistedMarkerClicked(s) ==
  /\ budget'.selections < budget.selections
  /\ infoWindow' = Some(<<"store", s>>)
  /\ s \notin Range(state.stores)

\* C39: a click on the marker of a store that is not in the published list
\* publishes the list of all the stores, so that the clicked store is in the
\* published list, and selects the clicked store.
C39_MarkerOfUnlistedStoreRestoresList ==
  [][\A s \in StoreIds :
       UnlistedMarkerClicked(s)
         => /\ state'.stores = propsStores
            /\ s \in Range(state'.stores)
            /\ state'.activeStoreId = Some(storeObj[s].id)]_vars

\* After a search that left store 1 out of its list the marker of store 1
\* was clicked: the input is empty with no reset, all the stores are listed
\* and store 1 is selected.
C39_Witness ==
  /\ started # <<>>
  /\ budget.resets = MaxResets
  /\ input = ""
  /\ state.stores = propsStores
  /\ state.activeStoreId = Some(1)
  /\ openWindows = {<<"store", 1>>}

====
